---------------------------- MODULE Spec2Model ----------------------------
(***************************************************************************)
(* Model of compare-contiguous-pics.py: list the images of a directory in  *)
(* numeric order, convert each to a raw YUV frame with ffmpeg, score each  *)
(* adjacent pair with vmaf (result read back from a JSON file) and write   *)
(* the rows to a CSV file.                                                 *)
(*                                                                         *)
(* A Python string is modelled as a tuple of chunks (single characters for *)
(* file names, whole words for fixed literals), so that endswith, the      *)
(* digit-run search, int(), Path.stem and ' '.join are computed rather     *)
(* than assumed.  The working directories, the JSON result files and the   *)
(* CSV file live on a disk that outlives a run of the script.              *)
(***************************************************************************)
EXTENDS Integers, Sequences, FiniteSets, TLC

\* ------------------------------------------------------------------ bounds
\* Most entries the image directory holds.
MaxFiles == 3
\* Most invocations of the script on the same working directory.
MaxRuns == 2

\* ------------------------------------------------------------ input universe
imgA1 == <<"a", "1", ".", "p", "n", "g">>
imgA2 == <<"a", "2", ".", "p", "n", "g">>
imgA10 == <<"a", "1", "0", ".", "p", "n", "g">>
img9B02 == <<"9", "b", "0", "2", ".", "p", "n", "g">>
imgX == <<"x", ".", "p", "n", "g">>
imgA3Jpg == <<"a", "3", ".", "j", "p", "g">>

\* The names a directory may hold: numeric vs lexical order (a2 / a10), a
\* name with several digit runs and a leading zero whose key ties with a2,
\* a name without any digit, and a name with another extension.
FileNames == {imgA1, imgA2, imgA10, img9B02, imgX, imgA3Jpg}

\* Values of --pic_ext tried ('png' is the default).
Extensions == {<<"p", "n", "g">>, <<"j", "p", "g">>}

\* Scores the scoring tool may report.
Scores == {90, 95}

\* --directory, --output and --vmaf_exe of the invocation.
image_dir == <<"imgs">>
output_csv == <<"comparison.csv">>
vmaf_exe == <<"vmaf">>

\* ----------------------------------------------------------- string helpers
RECURSIVE Orderings(_)
\* Every order in which os.listdir may return the entries of set S.
Orderings(S) ==
    IF S = {} THEN {<< >>}
    ELSE UNION {{<<x>> \o p : p \in Orderings(S \ {x})} : x \in S}

\* str.endswith
EndsWith(s, suffix) ==
    /\ Len(s) >= Len(suffix)
    /\ SubSeq(s, Len(s) - Len(suffix) + 1, Len(s)) = suffix

Digits == <<"0", "1", "2", "3", "4", "5", "6", "7", "8", "9">>

IsDigit(c) == \E d \in 1..Len(Digits) : Digits[d] = c

DigitVal(c) == (CHOOSE d \in 1..Len(Digits) : Digits[d] = c) - 1

RECURSIVE FindAllFrom(_, _, _, _)
\* re.findall(r'\d+', x) scanning from position p: cur is the run being
\* read, acc the runs already closed.
FindAllFrom(x, p, cur, acc) ==
    IF p > Len(x)
    THEN IF cur = << >> THEN acc ELSE Append(acc, cur)
    ELSE IF IsDigit(x[p])
         THEN FindAllFrom(x, p + 1, Append(cur, x[p]), acc)
         ELSE FindAllFrom(x, p + 1, << >>,
                          IF cur = << >> THEN acc ELSE Append(acc, cur))

\* re.findall(r'\d+', x): the maximal digit runs of x, left to right.
FindAll(x) == FindAllFrom(x, 1, << >>, << >>)

RECURSIVE IntOf(_)
\* int(s) of a string of decimal digits.
IntOf(s) ==
    IF s = << >> THEN 0
    ELSE 10 * IntOf(SubSeq(s, 1, Len(s) - 1)) + DigitVal(s[Len(s)])

\* Whether the sort key raises IndexError on x: findall(...)[-1] of [].
KeyRaises(x) == FindAll(x) = << >>

\* The sort key: lambda x: int(re.findall(r'\d+', x)[-1])
SortKey(x) == IntOf(FindAll(x)[Len(FindAll(x))])

RECURSIVE IntToStr(_)
\* str(n) of a natural number, as the f-string formats it.
IntToStr(n) ==
    IF n < 10 THEN <<Digits[n + 1]>>
    ELSE IntToStr(n \div 10) \o <<Digits[(n % 10) + 1]>>

RECURSIVE Join(_, _)
\* sep.join(parts)
Join(sep, parts) ==
    IF parts = << >> THEN << >>
    ELSE IF Len(parts) = 1 THEN parts[1]
    ELSE parts[1] \o sep \o Join(sep, Tail(parts))

\* Position of the last "." of name, 0 when there is none.
LastDot(name) ==
    IF \E p \in 1..Len(name) : name[p] = "."
    THEN CHOOSE p \in 1..Len(name) :
            /\ name[p] = "."
            /\ \A q \in (p + 1)..Len(name) : name[q] # "."
    ELSE 0

\* Path(name).stem: the name without its last suffix; a leading dot or a
\* trailing dot starts no suffix.
Stem(name) ==
    IF LastDot(name) > 1 /\ LastDot(name) < Len(name)
    THEN SubSeq(name, 1, LastDot(name) - 1)
    ELSE name

\* ------------------------------------------------------------------- state
VARIABLES
    dirEntries,         \* disk: the names the image directory holds
    pic_ext,            \* --pic_ext
    pc,                 \* where main() stands: list, mkdirs, convert,
                        \* compare, report, exited
    images,             \* main's images
    yuv_files,          \* main's yuv_files
    comparison_results, \* main's comparison_results
    i,                  \* the comparison loop's i (Python's, 1-based pair)
    exc,                \* the uncaught exception that ended the run, or NoExc
    stdout,             \* the lines printed by this run
    dirs,               \* disk: the working directories that exist
    yuvDisk,            \* disk: the converted frames that exist
    jsonDisk,           \* disk: the result files, each with the run that
                        \* wrote it
    csvDisk,            \* disk: the output CSV
    run,                \* number of this invocation of the script
    ffmpegCalls,        \* history: argument vectors given to ffmpeg, this run
    vmafCalls,          \* history: argument vectors given to vmaf, this run
    scoreRuns,          \* history: for each row, the run that wrote the
                        \* result file its score was read from
    csvWrites,          \* history: times this run opened the CSV for writing
    mkdirCalls,         \* history: mkdir calls of this run
    exitCodes,          \* history: exit code of each tool invocation of this
                        \* run, ffmpeg's then vmaf's, in invocation order
    toolFaults          \* history: tool invocations of this run that exited
                        \* non-zero or left no well-formed result

vars == <<dirEntries, pic_ext, pc, images, yuv_files, comparison_results, i, exc,
          stdout, dirs, yuvDisk, jsonDisk, csvDisk, run, ffmpegCalls,
          vmafCalls, scoreRuns, csvWrites, mkdirCalls, exitCodes, toolFaults>>

NoExc == [type |-> "none", raisedIn |-> "none"]

NotEnoughMsg == <<"Not enough images to compare.">>

CompletedMsg == <<"Comparison completed. Results saved to ">> \o output_csv

fieldnames == <<"Image 1", "Image 2", "VMAF Score">>

\* Mutant of Raise: the exception is caught and the loop goes on.
Raise_swallowed(type, where) ==
    /\ exc' = exc
    /\ pc' = pc

\* An exception nothing catches (main has no try): it ends the run.
Raise(type, where) ==
    /\ exc' = [type |-> type, raisedIn |-> where]
    /\ pc' = "exited"

\* Mutant of CheckRaises: subprocess.run without check=True.
CheckRaises_unchecked(exit) == FALSE

\* subprocess.run(command, check=True): raises on a non-zero exit code.
CheckRaises(exit) == exit # 0

\* ------------------------------------------------------------------ Lister
\* The list comprehension: entries ending in '.<extension>', in listdir order.
FilterByExtension(entries, extension) ==
    SelectSeq(entries, LAMBDA f : EndsWith(f, <<".">> \o extension))

\* Where a stable sort puts x in the already sorted s: after every element
\* whose key is not greater.
InsertByKey(s, x) ==
    LET n == Cardinality({k \in 1..Len(s) : SortKey(s[k]) <= SortKey(x)})
    IN  SubSeq(s, 1, n) \o <<x>> \o SubSeq(s, n + 1, Len(s))

RECURSIVE SortedByKey(_)
\* sorted(s, key=...): stable, ascending by SortKey.
SortedByKey(s) ==
    IF s = << >> THEN << >>
    ELSE InsertByKey(SortedByKey(SubSeq(s, 1, Len(s) - 1)), s[Len(s)])

\* Mutant of ListerRaises: the key is not computed for a one-element list.
ListerRaises_skipsSingleton(entries, extension) ==
    /\ Len(FilterByExtension(entries, extension)) >= 2
    /\ \E k \in 1..Len(FilterByExtension(entries, extension)) :
          KeyRaises(FilterByExtension(entries, extension)[k])

\* get_sorted_image_list raises (IndexError from the key) when a filtered
\* name holds no digit: sorted() computes the key of every element.
ListerRaises(entries, extension) ==
    \E k \in 1..Len(FilterByExtension(entries, extension)) :
        KeyRaises(FilterByExtension(entries, extension)[k])

\* Mutant of get_sorted_image_list: the list is returned in listdir order.
get_sorted_image_list_unsorted(entries, extension) ==
    FilterByExtension(entries, extension)

\* get_sorted_image_list's return value when it does not raise.
get_sorted_image_list(entries, extension) ==
    SortedByKey(FilterByExtension(entries, extension))

\* Mutant of NotEnough: the test is off by one.
NotEnough_offByOne(imgs) == Len(imgs) < 1

\* main's test: if len(images) < 2
NotEnough(imgs) == Len(imgs) < 2

\* --------------------------------------------------------------- Converter
\* image_dir / image
ImagePath(image) == image_dir \o <<"/">> \o image

\* Path(yuv_dir) / f"{Path(image).stem}.yuv"
YuvPath(image) == <<"yuv_dir", "/">> \o Stem(image) \o <<".yuv">>

\* Mutant of NextImage: the loop walks the list backwards.
NextImage_reversed(imgs, done) == imgs[Len(imgs) - Len(done)]

\* for image in images: the image the loop takes after `done` iterations.
NextImage(imgs, done) == imgs[Len(done) + 1]

\* convert_to_yuv's command.
ConvertCommand(image_path, yuv_path) ==
    << <<"ffmpeg">>, <<"-i">>, image_path, <<"-s">>, <<"1920x1080">>,
       <<"-pix_fmt">>, <<"yuv422p">>, yuv_path >>

\* -------------------------------------------------------------- Comparator
\* json_dir / f"compare_{i-1}_{i}.json"
JsonPath(k) ==
    <<"json_dir", "/", "compare_">> \o IntToStr(k - 1) \o <<"_">>
        \o IntToStr(k) \o <<".json">>

\* Mutant of CompareCommand: reference and distorted are swapped.
CompareCommand_swapped(exe, yuv_file_1, yuv_file_2, json_output_path) ==
    << exe, <<"-r">>, yuv_file_2, <<"-d">>, yuv_file_1, <<"--width">>,
       <<"1920">>, <<"--height">>, <<"1080">>, <<"--pixel_format">>,
       <<"422">>, <<"--bitdepth">>, <<"8">>, <<"--json">>, <<"--output">>,
       json_output_path >>

\* compare_yuv_files's command.
CompareCommand(exe, yuv_file_1, yuv_file_2, json_output_path) ==
    << exe, <<"-r">>, yuv_file_1, <<"-d">>, yuv_file_2, <<"--width">>,
       <<"1920">>, <<"--height">>, <<"1080">>, <<"--pixel_format">>,
       <<"422">>, <<"--bitdepth">>, <<"8">>, <<"--json">>, <<"--output">>,
       json_output_path >>

\* A well-formed result: {"frames": [{"metrics": {"vmaf": s}}]}
GoodResult(s) ==
    [parses |-> TRUE, data |-> [frames |-> <<[metrics |-> [vmaf |-> s]]>>]]

\* What the scoring tool may leave in its result file.
ResultContents ==
    {GoodResult(s) : s \in Scores}
    \cup {[parses |-> FALSE, data |-> [truncated |-> TRUE]],
          [parses |-> TRUE, data |-> [version |-> "x"]],
          [parses |-> TRUE, data |-> [frames |-> << >>]],
          [parses |-> TRUE, data |-> [frames |-> <<[frameNum |-> 0]>>]],
          [parses |-> TRUE,
           data |-> [frames |-> <<[metrics |-> [float_ssim |-> 1]]>>]]}

\* What one invocation of the scoring tool may do: its exit code, and
\* whether it (over)wrote the result file and with what.
VmafOutcomes ==
    {[exit |-> 1, wrote |-> FALSE, content |-> GoodResult(90)],
     [exit |-> 0, wrote |-> FALSE, content |-> GoodResult(90)]}
    \cup {[exit |-> 0, wrote |-> TRUE, content |-> c] : c \in ResultContents}

\* The exception json.load / the subscripts raise on a file's content.
ParseError(content) ==
    IF ~content.parses THEN "JSONDecodeError"
    ELSE IF "frames" \notin DOMAIN content.data THEN "KeyError"
    ELSE IF Len(content.data.frames) = 0 THEN "IndexError"
    ELSE IF "metrics" \notin DOMAIN content.data.frames[1] THEN "KeyError"
    ELSE IF "vmaf" \notin DOMAIN content.data.frames[1].metrics
         THEN "KeyError"
    ELSE "none"

\* vmaf_data['frames'][0]['metrics']['vmaf']
ParsedScore(content) == content.data.frames[1].metrics.vmaf

HasFile(disk, path) == \E f \in disk : f.path = path

FileAt(disk, path) == CHOOSE f \in disk : f.path = path

\* The disk after a file is created or truncated and written.
WriteFile(disk, path, content, byRun) ==
    {f \in disk : f.path # path}
        \cup {[path |-> path, content |-> content, run |-> byRun]}

\* The exception raised by lines 72-74 reading path from disk, "none" if none.
ReadError(disk, path) ==
    IF ~HasFile(disk, path) THEN "FileNotFoundError"
    ELSE ParseError(FileAt(disk, path).content)

\* ---------------------------------------------------------------- Reporter
\* One element of comparison_results.
ResultRow(image1, image2, score) ==
    ("Image 1" :> image1) @@ ("Image 2" :> image2) @@ ("VMAF Score" :> score)

\* A cell as csv writes it: the names are strings, written as they are; the
\* score is a number, written through str().
CsvCell(row, key) ==
    IF key = "VMAF Score" THEN IntToStr(row[key]) ELSE row[key]

\* Mutant of CsvLines: the rows are written last first.
CsvLines_reversed(rows) ==
    << [k \in 1..Len(fieldnames) |-> <<fieldnames[k]>>] >>
        \o [r \in 1..Len(rows) |->
               [k \in 1..Len(fieldnames) |->
                   CsvCell(rows[Len(rows) + 1 - r], fieldnames[k])]]

\* DictWriter.writeheader then writerows: fields in fieldnames order.
CsvLines(rows) ==
    << [k \in 1..Len(fieldnames) |-> <<fieldnames[k]>>] >>
        \o [r \in 1..Len(rows) |->
               [k \in 1..Len(fieldnames) |-> CsvCell(rows[r], fieldnames[k])]]

\* ----------------------------------------------------------------- actions
\* The directories of at most MaxFiles entries.
Directories == {T \in SUBSET FileNames : Cardinality(T) <= MaxFiles}

Init ==
    /\ dirEntries \in Directories
    /\ pic_ext \in Extensions
    /\ pc = "list"
    /\ images = << >>
    /\ yuv_files = << >>
    /\ comparison_results = << >>
    /\ i = 1
    /\ exc = NoExc
    /\ stdout = << >>
    /\ dirs = {}
    /\ yuvDisk = {}
    /\ jsonDisk = {}
    /\ csvDisk = [exists |-> FALSE, lines |-> << >>]
    /\ run = 1
    /\ ffmpegCalls = << >>
    /\ vmafCalls = << >>
    /\ scoreRuns = << >>
    /\ csvWrites = 0
    /\ mkdirCalls = 0
    /\ exitCodes = << >>
    /\ toolFaults = 0

\* main, lines 85-89: list the images, os.listdir giving the entries in
\* any order; an exception of the key ends the run, fewer than two images
\* print the message and return.
ListImages ==
    /\ pc = "list"
    /\ \E listing \in Orderings(dirEntries) :
          IF ListerRaises(listing, pic_ext)
          THEN /\ Raise("IndexError", "get_sorted_image_list")
               /\ UNCHANGED <<images, stdout>>
          ELSE /\ images' = get_sorted_image_list(listing, pic_ext)
               /\ exc' = exc
               /\ IF NotEnough(images')
                  THEN /\ stdout' = Append(stdout, NotEnoughMsg)
                       /\ pc' = "exited"
                  ELSE /\ stdout' = stdout
                       /\ pc' = "mkdirs"
    /\ UNCHANGED <<dirEntries, pic_ext, yuv_files, comparison_results, i, dirs,
                   yuvDisk, jsonDisk, csvDisk, run, ffmpegCalls, vmafCalls,
                   scoreRuns, csvWrites, mkdirCalls, exitCodes, toolFaults>>

\* main, lines 92-97: create the working directories (exist_ok) and start
\* with an empty yuv_files.
MakeDirs ==
    /\ pc = "mkdirs"
    /\ dirs' = dirs \cup {"yuv_dir", "json_dir"}
    /\ mkdirCalls' = mkdirCalls + 2
    /\ yuv_files' = << >>
    /\ pc' = "convert"
    /\ UNCHANGED <<dirEntries, pic_ext, images, comparison_results, i, exc,
                   stdout, yuvDisk, jsonDisk, csvDisk, run, ffmpegCalls,
                   vmafCalls, scoreRuns, csvWrites, exitCodes, toolFaults>>

\* main, lines 99-105: one iteration of the conversion loop, on the image
\* after the last converted one.  ffmpeg exits 0 having written the frame,
\* or exits non-zero and check=True raises CalledProcessError.  After the
\* last image the comparison loop starts with an empty comparison_results.
Convert ==
    /\ pc = "convert"
    /\ LET image == NextImage(images, yuv_files)
           yuv_file == YuvPath(image)
       IN  /\ ffmpegCalls' =
                 Append(ffmpegCalls, ConvertCommand(ImagePath(image), yuv_file))
           /\ \E exit \in {0, 1} :
                 /\ exitCodes' = Append(exitCodes, exit)
                 /\ toolFaults' = IF exit = 0 THEN toolFaults
                                  ELSE toolFaults + 1
                 /\ yuvDisk' = IF exit = 0 THEN yuvDisk \cup {yuv_file}
                               ELSE yuvDisk
                 /\ IF CheckRaises(exit)
                    THEN /\ Raise("CalledProcessError", "convert_to_yuv")
                         /\ UNCHANGED yuv_files
                    ELSE /\ yuv_files' = Append(yuv_files, yuv_file)
                         /\ pc' = IF Len(yuv_files') < Len(images)
                                  THEN "convert"
                                  ELSE IF 1 < Len(yuv_files')
                                       THEN "compare" ELSE "report"
                         /\ exc' = exc
    /\ comparison_results' = << >>
    /\ i' = 1
    /\ UNCHANGED <<dirEntries, pic_ext, images, stdout, dirs, jsonDisk, csvDisk,
                   run, vmafCalls, scoreRuns, csvWrites, mkdirCalls>>

\* main, lines 107-114 with compare_yuv_files: one iteration of the
\* comparison loop.  The command is printed and run; the tool exits
\* non-zero (CalledProcessError) or zero, having written its result file or
\* not; then the file found at the path is opened, parsed and subscripted,
\* and the row appended.  Any exception ends the run.
Compare ==
    /\ pc = "compare"
    /\ LET json_output_path == JsonPath(i)
           command == CompareCommand(vmaf_exe, yuv_files[i], yuv_files[i + 1],
                                     json_output_path)
       IN  /\ stdout' = Append(stdout, Join(<<" ">>, command))
           /\ vmafCalls' = Append(vmafCalls, command)
           /\ \E o \in VmafOutcomes :
                 /\ jsonDisk' = IF o.wrote
                                THEN WriteFile(jsonDisk, json_output_path,
                                               o.content, run)
                                ELSE jsonDisk
                 /\ exitCodes' = Append(exitCodes, o.exit)
                 /\ toolFaults' =
                        IF o.exit = 0 /\ o.wrote /\ ParseError(o.content) = "none"
                        THEN toolFaults ELSE toolFaults + 1
                 /\ IF CheckRaises(o.exit)
                    THEN /\ Raise("CalledProcessError", "compare_yuv_files")
                         /\ UNCHANGED <<comparison_results, scoreRuns, i>>
                    ELSE IF ReadError(jsonDisk', json_output_path) # "none"
                    THEN /\ Raise(ReadError(jsonDisk', json_output_path),
                                  "compare_yuv_files")
                         /\ UNCHANGED <<comparison_results, scoreRuns, i>>
                    ELSE /\ comparison_results' =
                               Append(comparison_results,
                                      ResultRow(images[i], images[i + 1],
                                                ParsedScore(FileAt(jsonDisk', json_output_path).content)))
                         /\ scoreRuns' =
                               Append(scoreRuns,
                                      FileAt(jsonDisk', json_output_path).run)
                         /\ i' = i + 1
                         /\ pc' = IF i' < Len(yuv_files)
                                  THEN "compare" ELSE "report"
                         /\ exc' = exc
    /\ UNCHANGED <<dirEntries, pic_ext, images, yuv_files, dirs, yuvDisk,
                   csvDisk, run, ffmpegCalls, csvWrites, mkdirCalls>>

\* main, lines 116-122: open the CSV for writing (truncating it), write the
\* header and the rows, print the completion message.
WriteCsv ==
    /\ pc = "report"
    /\ csvDisk' = [exists |-> TRUE, lines |-> CsvLines(comparison_results)]
    /\ csvWrites' = csvWrites + 1
    /\ stdout' = Append(stdout, CompletedMsg)
    /\ pc' = "exited"
    /\ UNCHANGED <<dirEntries, pic_ext, images, yuv_files, comparison_results,
                   i, exc, dirs, yuvDisk, jsonDisk, run, ffmpegCalls,
                   vmafCalls, scoreRuns, mkdirCalls, exitCodes, toolFaults>>

\* The script is invoked again with the same arguments from the same working
\* directory on the same image directory: a new process, the disk as the
\* earlier runs left it.
Rerun ==
    /\ pc = "exited"
    /\ run < MaxRuns
    /\ run' = run + 1
    /\ pc' = "list"
    /\ images' = << >>
    /\ yuv_files' = << >>
    /\ comparison_results' = << >>
    /\ i' = 1
    /\ exc' = NoExc
    /\ stdout' = << >>
    /\ ffmpegCalls' = << >>
    /\ vmafCalls' = << >>
    /\ scoreRuns' = << >>
    /\ csvWrites' = 0
    /\ mkdirCalls' = 0
    /\ exitCodes' = << >>
    /\ toolFaults' = 0
    /\ UNCHANGED <<dirEntries, pic_ext, dirs, yuvDisk, jsonDisk, csvDisk>>

Next == ListImages \/ MakeDirs \/ Convert \/ Compare \/ WriteCsv \/ Rerun

Spec == Init /\ [][Next]_vars

\* ------------------------------------------------------ vocabulary of claims
Range(s) == {s[k] : k \in 1..Len(s)}

Last(s) == s[Len(s)]

\* The argument that follows flag in an argument vector.
ArgAfter(argv, flag) ==
    argv[(CHOOSE p \in 1..(Len(argv) - 1) : argv[p] = flag) + 1]

DigitChars == {"0", "1", "2", "3", "4", "5", "6", "7", "8", "9"}

DigitOf ==
    ("0" :> 0) @@ ("1" :> 1) @@ ("2" :> 2) @@ ("3" :> 3) @@ ("4" :> 4)
        @@ ("5" :> 5) @@ ("6" :> 6) @@ ("7" :> 7) @@ ("8" :> 8) @@ ("9" :> 9)

\* The directory entries whose name ends in '.<extension>'.
Matching ==
    {f \in dirEntries : EndsWith(f, <<".">> \o pic_ext)}

HasDigitChar(name) == \E p \in 1..Len(name) : name[p] \in DigitChars

RECURSIVE DecimalValue(_, _, _)
\* The number written in decimal at positions b..e of name.
DecimalValue(name, b, e) ==
    IF b > e THEN 0
    ELSE 10 * DecimalValue(name, b, e - 1) + DigitOf[name[e]]

\* The integer value of the last contiguous digit run of name: the run ends
\* at the last digit and starts where the digits before it stop.
LastRunValue(name) ==
    LET e == CHOOSE p \in 1..Len(name) :
                /\ name[p] \in DigitChars
                /\ \A q \in (p + 1)..Len(name) : name[q] \notin DigitChars
        b == CHOOSE p \in 1..e :
                /\ \A q \in p..e : name[q] \in DigitChars
                /\ p = 1 \/ name[p - 1] \notin DigitChars
    IN  DecimalValue(name, b, e)

\* The run has ended: main returned or an exception left it.
Exited == pc = "exited"

\* Exit code of the k-th scoring invocation of this run.
VmafExit(k) == exitCodes[Len(ffmpegCalls) + k]

\* The file at path holds frames -> first element -> metrics -> vmaf.
ResultUsable(path) ==
    \E f \in jsonDisk :
        /\ f.path = path
        /\ f.content.parses
        /\ "frames" \in DOMAIN f.content.data
        /\ f.content.data.frames # << >>
        /\ "metrics" \in DOMAIN f.content.data.frames[1]
        /\ "vmaf" \in DOMAIN f.content.data.frames[1].metrics

\* The exceptions that a missing, unparsable or incomplete result file raises.
MalformedResultErrors ==
    {"FileNotFoundError", "JSONDecodeError", "KeyError", "IndexError"}

\* The text of each score in a CSV cell.
ScoreText == (90 :> <<"9", "0">>) @@ (95 :> <<"9", "5">>)

\* -------------------------------------------------------------------- C1
\* C1: every scoring invocation of a run takes, as the k-th one, the frame
\* converted from entry k-1 as reference and the frame converted from
\* entry k as distorted (so the invocations go through the adjacent pairs
\* in increasing order); and a run that listed N >= 2 images and in which
\* every tool invocation succeeded (exit code 0, a well-formed result
\* written) ends with exactly N-1 scoring invocations and N-1 rows handed
\* to the Reporter.
C1_AdjacentPairsInOrder ==
    /\ \A k \in 1..Len(vmafCalls) :
          /\ k < Len(images)
          /\ Len(ffmpegCalls) = Len(images)
          /\ ArgAfter(ffmpegCalls[k], <<"-i">>) = ImagePath(images[k])
          /\ ArgAfter(ffmpegCalls[k + 1], <<"-i">>) = ImagePath(images[k + 1])
          /\ ArgAfter(vmafCalls[k], <<"-r">>) = Last(ffmpegCalls[k])
          /\ ArgAfter(vmafCalls[k], <<"-d">>) = Last(ffmpegCalls[k + 1])
    /\ (Exited /\ Len(images) >= 2 /\ toolFaults = 0) =>
          /\ Len(vmafCalls) = Len(images) - 1
          /\ Len(comparison_results) = Len(images) - 1
          /\ csvWrites = 1
          /\ Len(csvDisk.lines) = 1 + (Len(images) - 1)

\* A run over three images ended with every tool invocation successful.
C1_Witness ==
    /\ Exited
    /\ Len(images) = 3
    /\ toolFaults = 0
    /\ Len(vmafCalls) = 2

\* -------------------------------------------------------------------- C2
\* C2: when every entry ending in '.<extension>' holds a digit, the Lister
\* returns (does not raise) a permutation of exactly those entries, in
\* non-decreasing order of the integer value of the last digit run of each
\* name; a10.png, a2.png, a1.png give a1.png, a2.png, a10.png.
C2_ListerSortedPermutation ==
    (pc # "list" /\ \A f \in Matching : HasDigitChar(f)) =>
        /\ exc.raisedIn # "get_sorted_image_list"
        /\ Len(images) = Cardinality(Matching)
        /\ Range(images) = Matching
        /\ \A a \in 1..Len(images) : \A b \in 1..Len(images) :
              a < b => LastRunValue(images[a]) <= LastRunValue(images[b])
        /\ (dirEntries = {imgA10, imgA2, imgA1} /\ pic_ext = <<"p", "n", "g">>)
              => images = <<imgA1, imgA2, imgA10>>

\* The Lister has returned on the directory of a10.png, a2.png, a1.png.
C2_Witness ==
    /\ pc # "list"
    /\ dirEntries = {imgA10, imgA2, imgA1}
    /\ images = <<imgA1, imgA2, imgA10>>

\* -------------------------------------------------------------------- C3
\* C3: after a successful run over N >= 2 listed images the CSV holds the
\* header Image 1, Image 2, VMAF Score and then exactly N-1 rows, row k
\* being entry k-1, entry k and the score of the k-th pair's result file
\* (what the k-th scoring invocation returned), in that order.
C3_CsvRowsInOrder ==
    (Exited /\ exc = NoExc /\ Len(images) >= 2) =>
        /\ csvDisk.exists
        /\ csvWrites = 1
        /\ Len(csvDisk.lines) = Len(images)
        /\ csvDisk.lines[1] = << <<"Image 1">>, <<"Image 2">>, <<"VMAF Score">> >>
        /\ \A k \in 1..(Len(images) - 1) :
              \E s \in Scores :
                 /\ HasFile(jsonDisk, ArgAfter(vmafCalls[k], <<"--output">>))
                 /\ FileAt(jsonDisk, ArgAfter(vmafCalls[k], <<"--output">>)).content
                        = GoodResult(s)
                 /\ csvDisk.lines[k + 1]
                        = <<images[k], images[k + 1], ScoreText[s]>>

\* The run over a1, a2, a10 that scored 90 then 95 has written its CSV.
C3_Witness ==
    /\ Exited
    /\ exc = NoExc
    /\ images = <<imgA1, imgA2, imgA10>>
    /\ csvDisk.exists
    /\ Len(csvDisk.lines) = 3
    /\ csvDisk.lines[2][3] = <<"9", "0">>
    /\ csvDisk.lines[3][3] = <<"9", "5">>

\* -------------------------------------------------------------------- C4
\* C4: a tool invocation that exits non-zero is the last invocation of its
\* run: the run has ended with CalledProcessError and has not opened the
\* CSV for writing.
C4_ToolFailureAborts ==
    /\ Len(exitCodes) = Len(ffmpegCalls) + Len(vmafCalls)
    /\ \A k \in 1..Len(exitCodes) :
          exitCodes[k] # 0 =>
              /\ k = Len(exitCodes)
              /\ Exited
              /\ exc.type = "CalledProcessError"
              /\ csvWrites = 0

\* The scoring tool exited non-zero on the first of two pairs.
C4_Witness ==
    /\ Exited
    /\ Len(images) = 3
    /\ Len(vmafCalls) = 1
    /\ VmafExit(1) # 0

\* -------------------------------------------------------------------- C5
\* C5 as claimed: a run with fewer than 2 matching files ends cleanly,
\* having printed "Not enough images to compare." and nothing else done.
C5_FewerThanTwoExitsCleanly ==
    (Exited /\ Cardinality(Matching) < 2) =>
        /\ exc = NoExc
        /\ stdout = <<NotEnoughMsg>>
        /\ ffmpegCalls = << >>
        /\ vmafCalls = << >>
        /\ mkdirCalls = 0
        /\ csvWrites = 0

\* C5 as amended: with fewer than 2 matching files no conversion or
\* comparison is invoked, no working directory is created and no CSV is
\* written; the run ends cleanly after printing the message when every
\* matching name holds a digit, and with the Lister's uncaught IndexError
\* (nothing printed) when the one matching name holds none.
C5_FewerThanTwoAmended ==
    Cardinality(Matching) < 2 =>
        /\ ffmpegCalls = << >>
        /\ vmafCalls = << >>
        /\ mkdirCalls = 0
        /\ csvWrites = 0
        /\ Exited =>
              IF \A f \in Matching : HasDigitChar(f)
              THEN exc = NoExc /\ stdout = <<NotEnoughMsg>>
              ELSE /\ exc = [type |-> "IndexError",
                             raisedIn |-> "get_sorted_image_list"]
                   /\ stdout = << >>

\* A run with exactly one matching file, which holds a digit, has ended.
C5_Witness ==
    /\ Exited
    /\ Cardinality(Matching) = 1
    /\ \A f \in Matching : HasDigitChar(f)
    /\ stdout = <<NotEnoughMsg>>

\* -------------------------------------------------------------------- C6
\* C6: when a matching name holds no digit, the Lister's call ends the run
\* with an uncaught IndexError, whatever the number of matching files:
\* nothing is listed or printed, and no conversion, comparison, directory
\* creation or CSV write happens.
C6_NoDigitNameFailsLister ==
    (pc # "list" /\ \E f \in Matching : ~HasDigitChar(f)) =>
        /\ Exited
        /\ exc = [type |-> "IndexError", raisedIn |-> "get_sorted_image_list"]
        /\ images = << >>
        /\ stdout = << >>
        /\ ffmpegCalls = << >>
        /\ vmafCalls = << >>
        /\ mkdirCalls = 0
        /\ csvWrites = 0

\* The only matching file holds no digit and the run has ended.
C6_Witness ==
    /\ Exited
    /\ Matching = {imgX}
    /\ exc.type = "IndexError"

\* -------------------------------------------------------------------- C7
\* C7: a scoring invocation that exited zero and whose result file is then
\* missing, unparsable or without frames -> first -> metrics -> score is
\* the last invocation of its run: the run has ended with the exception of
\* reading the file, no row was added for the pair and the CSV was not
\* opened for writing.
C7_MalformedResultIsFatal ==
    \A k \in 1..Len(vmafCalls) :
        (VmafExit(k) = 0
            /\ ~ResultUsable(ArgAfter(vmafCalls[k], <<"--output">>))) =>
            /\ k = Len(vmafCalls)
            /\ Exited
            /\ exc.raisedIn = "compare_yuv_files"
            /\ exc.type \in MalformedResultErrors
            /\ Len(comparison_results) = k - 1
            /\ csvWrites = 0

\* The first of two pairs got a result file without the score's path.
C7_Witness ==
    /\ Exited
    /\ Len(images) = 3
    /\ Len(vmafCalls) = 1
    /\ VmafExit(1) = 0
    /\ HasFile(jsonDisk, JsonPath(1))
    /\ exc.type = "KeyError"

\* -------------------------------------------------------------------- C8
\* The order of the stages, in any state of any run: nothing before the
\* Lister; conversions in the Lister's order, at most one per image; no
\* comparison before every conversion has completed; at most one CSV
\* write, after the last comparison.
StagesInOrder ==
    /\ pc = "list" =>
          ffmpegCalls = << >> /\ vmafCalls = << >> /\ csvWrites = 0
    /\ Len(ffmpegCalls) <= Len(images)
    /\ \A k \in 1..Len(ffmpegCalls) :
          ArgAfter(ffmpegCalls[k], <<"-i">>) = ImagePath(images[k])
    /\ vmafCalls # << >> =>
          /\ Len(ffmpegCalls) = Len(images)
          /\ \A k \in 1..Len(ffmpegCalls) :
                exitCodes[k] = 0 /\ Last(ffmpegCalls[k]) \in yuvDisk
    /\ csvWrites <= 1
    /\ csvWrites = 1 =>
          /\ Exited
          /\ Len(vmafCalls) = Len(images) - 1
          /\ Len(comparison_results) = Len(images) - 1

\* C8 as claimed: in every run the stages occur in order, the Converter is
\* invoked exactly once per listed image and the CSV is written exactly
\* once.
C8_EveryRunAllStages ==
    /\ StagesInOrder
    /\ Exited => Len(ffmpegCalls) = Len(images) /\ csvWrites = 1

\* C8 as amended: in every run the stages occur in order (conversions in
\* the Lister's order and at most once per image, no comparison before the
\* last conversion has completed, at most one CSV write and only after the
\* last comparison); in a run that lists at least 2 images and ends without
\* an exception the Converter is invoked exactly once per image and the CSV
\* is written exactly once.
C8_StagesAmended ==
    /\ StagesInOrder
    /\ (Exited /\ exc = NoExc /\ Len(images) >= 2) =>
          Len(ffmpegCalls) = Len(images) /\ csvWrites = 1

\* A run over three images has gone through every stage.
C8_Witness ==
    /\ Exited
    /\ Len(images) = 3
    /\ Len(ffmpegCalls) = 3
    /\ Len(vmafCalls) = 2
    /\ csvWrites = 1

\* -------------------------------------------------------------------- C9
\* C9: every scoring invocation has the argument vector
\* <tool> -r <ref> -d <dist> --width 1920 --height 1080 --pixel_format 422
\* --bitdepth 8 --feature <variant> --json --output <result_path>.
C9_ScoringArgvHasFeature ==
    \A k \in 1..Len(vmafCalls) :
        /\ Len(vmafCalls[k]) = 18
        /\ vmafCalls[k] =
              << vmaf_exe, <<"-r">>, yuv_files[k], <<"-d">>, yuv_files[k + 1],
                 <<"--width">>, <<"1920">>, <<"--height">>, <<"1080">>,
                 <<"--pixel_format">>, <<"422">>, <<"--bitdepth">>, <<"8">>,
                 <<"--feature">>, vmafCalls[k][15], <<"--json">>,
                 <<"--output">>, JsonPath(k) >>

\* ------------------------------------------------------------------- C10
\* C10: every score of a CSV written by a run was read from a result file
\* written by that same run.
C10_ScoresFromOwnRun ==
    (Exited /\ csvWrites = 1) =>
        \A k \in 1..Len(scoreRuns) : scoreRuns[k] = run

=============================================================================
